---- MODULE Spec2Model ----
(***************************************************************************)
(* uvpad: texture dilation.  One run of the program reads an input raster  *)
(* and fills its transparent pixels with process_gimp_alg (iterative       *)
(* neighbour averaging, "IA") or process_paint_net_alg (jump flooding,     *)
(* "JFP"), chosen by the flag `slower`.                                    *)
(*                                                                         *)
(* A raster is a function from the linear index idx = y*width + x to a     *)
(* pixel record [r, g, b, a].  `input` holds what input.At(x, y).RGBA()    *)
(* returns: 16-bit alpha-premultiplied samples.  rgba, output and tempImg  *)
(* are image.RGBA rasters: 8-bit samples.                                  *)
(***************************************************************************)
EXTENDS Integers, Sequences, FiniteSets

VARIABLES
    width, height,      \* bounds.Dx(), bounds.Dy()
    input,              \* the decoded image, as seen through At(x, y).RGBA()
    slower,             \* the --slower flag: TRUE runs process_gimp_alg
    numCpu,             \* runtime.NumCPU()
    pc,                 \* position of the run
    rgba, output,       \* 8-bit rasters of process_gimp_alg / process_paint_net_alg
    tempImg,            \* the raster a process_gimp_alg pass writes
    remaining, passes,  \* process_gimp_alg's counters
    opaqueMask,         \* process_paint_net_alg's mask
    distances, nearest, \* jumpFlood's grids
    distancesCopy, nearestCopy, \* the snapshot a pass reads
    step,               \* jumpFlood's loop variable
    rowAt               \* rowAt[i]: the y of goroutine i's row loop

vars == <<width, height, input, slower, numCpu, pc, rgba, output, tempImg,
          remaining, passes, opaqueMask, distances, nearest, distancesCopy,
          nearestCopy, step, rowAt>>

-----------------------------------------------------------------------------
(* Bounds of the model *)

MaxW == 3
MaxH == 3
MaxArea == 4
MaxCpu == 3
\* The narrowest single-row raster on which steps 1 .. maxSteps-1 cannot
\* carry a source from one end to the other: 1 + 2 + ... + 13 = 91 < 92.
WideW == 93

(* Program constants *)

MaxAlpha16 == 65535
Opaque8 == 255

-----------------------------------------------------------------------------
(* Pixels and colour conversions *)

Pix(r, g, b, a) == [r |-> r, g |-> g, b |-> b, a |-> a]

\* uint8(v): conversion of an unsigned value keeps the low byte
Uint8(v) == v % 256

\* color.RGBAModel.Convert, as applied by (*image.RGBA).Set to a colour that
\* is not already a color.RGBA: every 16-bit sample is shifted right by 8
ModelConvert(c) == Pix(c.r \div 256, c.g \div 256, c.b \div 256, c.a \div 256)

\* color.RGBA.RGBA(): an 8-bit sample v becomes v<<8 | v
RGBA16(p) == Pix(p.r * 257, p.g * 257, p.b * 257, p.a * 257)

\* the zero value of an image.RGBA pixel, and color.RGBA{0, 0, 0, 0}
ZeroPix == Pix(0, 0, 0, 0)

Point(x, y) == [x |-> x, y |-> y]

NoPoint == Point(-1, -1)

-----------------------------------------------------------------------------
(* Geometry *)

Pixels == 0 .. (width * height - 1)

IdxOf(x, y) == y * width + x

XOf(idx) == idx % width

YOf(idx) == idx \div width

InBounds(nx, ny) == nx >= 0 /\ nx < width /\ ny >= 0 /\ ny < height

Max(a, b) == IF a >= b THEN a ELSE b

RECURSIVE CeilLog2From(_, _, _)
CeilLog2From(k, p, n) == IF p >= n THEN k ELSE CeilLog2From(k + 1, 2 * p, n)

\* int(math.Ceil(math.Log2(n))) for an integer n >= 1
CeilLog2(n) == CeilLog2From(0, 1, n)

-----------------------------------------------------------------------------
(* Inputs *)

Clear == Pix(0, 0, 0, 0)
Red == Pix(65535, 0, 0, 65535)
Blue == Pix(0, 0, 65535, 65535)
\* an opaque 16-bit pixel whose samples have different low and high bytes
Deep == Pix(4779, 255, 32768, 65535)
\* a 16-bit pixel whose alpha is below the maximum with high byte 0xff
Near == Pix(16384, 0, 255, 65408)

Palette == {Clear, Near, Red, Deep}

OpaquePalette == {Red, Blue, Deep}

Raster(w, h, pix) == [w |-> w, h |-> h, pix |-> pix]

Shapes == {s \in (1 .. MaxW) \X (1 .. MaxH) : s[1] * s[2] <= MaxArea}

GeneralRasters ==
    UNION { { Raster(s[1], s[2], f) : f \in [0 .. (s[1] * s[2] - 1) -> Palette] } :
            s \in Shapes }

\* 3 x 3, the centre not opaque, the four 4-connected neighbours of one
\* colour and the four corners of one colour
ScenarioRasters ==
    { Raster(3, 3, [i \in 0 .. 8 |->
                      IF i = 4 THEN c ELSE IF i \in {1, 3, 5, 7} THEN e ELSE d]) :
      c \in {Clear, Near}, e \in OpaquePalette, d \in OpaquePalette }

\* 3 x 3, the centre and the corners transparent, each of the four
\* 4-connected neighbours of the centre transparent or of one of two colours
CrossRasters ==
    { Raster(3, 3, [i \in 0 .. 8 |->
                      IF i = 1 THEN f[1] ELSE IF i = 3 THEN f[2]
                      ELSE IF i = 5 THEN f[3] ELSE IF i = 7 THEN f[4] ELSE Clear]) :
      f \in [1 .. 4 -> {Clear, Red, Deep}] }

\* one row with a single opaque pixel
WideRasters ==
    { Raster(WideW, 1, [i \in 0 .. (WideW - 1) |-> IF i = s THEN Red ELSE Clear]) :
      s \in {0, WideW \div 2, WideW - 1} }

InitWith(rasters) ==
    \E ras \in rasters, sl \in BOOLEAN, n \in 1 .. MaxCpu :
        /\ width = ras.w
        /\ height = ras.h
        /\ input = ras.pix
        /\ slower = sl
        /\ numCpu = n
        /\ pc = "start"
        /\ rgba = [idx \in 0 .. (ras.w * ras.h - 1) |-> ZeroPix]
        /\ output = [idx \in 0 .. (ras.w * ras.h - 1) |-> ZeroPix]
        /\ tempImg = [idx \in 0 .. (ras.w * ras.h - 1) |-> ZeroPix]
        /\ remaining = 0
        /\ passes = 0
        /\ opaqueMask = [idx \in 0 .. (ras.w * ras.h - 1) |-> FALSE]
        /\ distances = [idx \in 0 .. (ras.w * ras.h - 1) |-> 0]
        /\ nearest = [idx \in 0 .. (ras.w * ras.h - 1) |-> Point(0, 0)]
        /\ distancesCopy = [idx \in 0 .. (ras.w * ras.h - 1) |-> 0]
        /\ nearestCopy = [idx \in 0 .. (ras.w * ras.h - 1) |-> Point(0, 0)]
        /\ step = 1
        /\ rowAt = [i \in 0 .. (n - 1) |-> 0]

Init == InitWith(GeneralRasters \cup ScenarioRasters \cup CrossRasters)

InitWide == InitWith(WideRasters)

-----------------------------------------------------------------------------
(* process_gimp_alg *)

\* rgba.Set(x, y, input.At(x, y)) for every pixel
GimpWorkingCopy == [idx \in Pixels |-> ModelConvert(input[idx])]

\* the initial count taken on the 16-bit input samples instead of the copy
GimpCountsInput16(img, idx) == input[idx].a # MaxAlpha16

\* _, _, _, alpha := rgba.At(x, y).RGBA(); alpha != 0xffff
GimpCountsAsRemaining(img, idx) == RGBA16(img[idx]).a # MaxAlpha16

GimpInit ==
    /\ pc = "start"
    /\ slower
    /\ rgba' = GimpWorkingCopy
    /\ output' = GimpWorkingCopy
    /\ remaining' = Cardinality({idx \in Pixels : GimpCountsAsRemaining(GimpWorkingCopy, idx)})
    /\ passes' = 0
    /\ pc' = "ia_loop"
    /\ UNCHANGED <<width, height, input, slower, numCpu, tempImg, opaqueMask,
                   distances, nearest, distancesCopy, nearestCopy, step, rowAt>>

neighbours4 == <<Point(-1, 0), Point(1, 0), Point(0, -1), Point(0, 1)>>

RECURSIVE GatherFrom(_, _, _, _)
\* the loop over neighbours: acc holds r, g, b and count.  The sums are
\* uint32 and at most 4 * 65535, so they never wrap
GatherFrom(k, x, y, acc) ==
    IF k > Len(neighbours4) THEN acc
    ELSE LET nx == x + neighbours4[k].x
             ny == y + neighbours4[k].y
         IN IF InBounds(nx, ny) /\ RGBA16(rgba[IdxOf(nx, ny)]).a = MaxAlpha16
            THEN LET c == RGBA16(rgba[IdxOf(nx, ny)])
                 IN GatherFrom(k + 1, x, y,
                               [r |-> acc.r + c.r,
                                g |-> acc.g + c.g,
                                b |-> acc.b + c.b,
                                count |-> acc.count + 1])
            ELSE GatherFrom(k + 1, x, y, acc)

Gather(x, y) == GatherFrom(1, x, y, [r |-> 0, g |-> 0, b |-> 0, count |-> 0])

\* the fill computed as the truncated mean of the 8-bit samples
GimpFillMean8(acc) ==
    Pix(Uint8((acc.r \div 257) \div acc.count),
        Uint8((acc.g \div 257) \div acc.count),
        Uint8((acc.b \div 257) \div acc.count),
        Opaque8)

\* the pixel written when count > 0
GimpFill(acc) ==
    Pix(Uint8((acc.r \div acc.count) \div 256),
        Uint8((acc.g \div acc.count) \div 256),
        Uint8((acc.b \div acc.count) \div 256),
        Opaque8)

RECURSIVE GatherInPlaceFrom(_, _, _, _, _)
\* the loop over neighbours reading img, the raster being written
GatherInPlaceFrom(k, x, y, acc, img) ==
    IF k > Len(neighbours4) THEN acc
    ELSE LET nx == x + neighbours4[k].x
             ny == y + neighbours4[k].y
         IN IF InBounds(nx, ny) /\ RGBA16(img[IdxOf(nx, ny)]).a = MaxAlpha16
            THEN LET c == RGBA16(img[IdxOf(nx, ny)])
                 IN GatherInPlaceFrom(k + 1, x, y,
                               [r |-> acc.r + c.r,
                                g |-> acc.g + c.g,
                                b |-> acc.b + c.b,
                                count |-> acc.count + 1], img)
            ELSE GatherInPlaceFrom(k + 1, x, y, acc, img)

RECURSIVE GimpPassInPlaceFrom(_, _)
\* a pass that reads its neighbours from the raster it writes
GimpPassInPlaceFrom(idx, st) ==
    IF idx >= width * height THEN st
    ELSE LET acc == GatherInPlaceFrom(1, XOf(idx), YOf(idx),
                                      [r |-> 0, g |-> 0, b |-> 0, count |-> 0], st.img)
         IN IF st.img[idx].a # Opaque8 /\ acc.count > 0
            THEN GimpPassInPlaceFrom(idx + 1,
                     [img |-> [st.img EXCEPT ![idx] = GimpFill(acc)],
                      remaining |-> st.remaining - 1])
            ELSE GimpPassInPlaceFrom(idx + 1, st)

RECURSIVE GimpPassAllFrom(_, _)
\* a pass without the test on the pixel's own alpha: every pixel with an
\* opaque neighbour is rewritten
GimpPassAllFrom(idx, st) ==
    IF idx >= width * height THEN st
    ELSE IF Gather(XOf(idx), YOf(idx)).count > 0
         THEN GimpPassAllFrom(idx + 1,
                  [img |-> [st.img EXCEPT ![idx] = GimpFill(Gather(XOf(idx), YOf(idx)))],
                   remaining |-> IF output[idx].a # Opaque8
                                 THEN st.remaining - 1 ELSE st.remaining])
         ELSE GimpPassAllFrom(idx + 1, st)

RECURSIVE GimpPassFrom(_, _)
\* the y/x loops of one pass, in the order of the code (idx = y*width + x);
\* st.img is tempImg, st.remaining the counter
GimpPassFrom(idx, st) ==
    IF idx >= width * height THEN st
    ELSE IF output[idx].a # Opaque8 /\ Gather(XOf(idx), YOf(idx)).count > 0
         THEN GimpPassFrom(idx + 1,
                  [img |-> [st.img EXCEPT ![idx] = GimpFill(Gather(XOf(idx), YOf(idx)))],
                   remaining |-> st.remaining - 1])
         ELSE GimpPassFrom(idx + 1, st)

\* `passes` is counted up to width + height, more than any run that
\* converges needs (at most width + height - 2 passes)
PassesCap == width + height

GimpPass ==
    /\ pc = "ia_loop"
    /\ remaining > 0
    /\ passes' = IF passes < PassesCap THEN passes + 1 ELSE passes
    /\ LET st == GimpPassFrom(0, [img |-> output, remaining |-> remaining])
       IN /\ tempImg' = st.img
          /\ remaining' = st.remaining
    /\ pc' = "ia_copy"
    /\ UNCHANGED <<width, height, input, slower, numCpu, rgba, output, opaqueMask,
                   distances, nearest, distancesCopy, nearestCopy, step, rowAt>>

GimpCopyBack ==
    /\ pc = "ia_copy"
    /\ output' = tempImg
    /\ rgba' = tempImg
    /\ pc' = "ia_loop"
    /\ UNCHANGED <<width, height, input, slower, numCpu, tempImg, remaining, passes,
                   opaqueMask, distances, nearest, distancesCopy, nearestCopy,
                   step, rowAt>>

GimpReturn ==
    /\ pc = "ia_loop"
    /\ ~(remaining > 0)
    /\ pc' = "done"
    /\ UNCHANGED <<width, height, input, slower, numCpu, rgba, output, tempImg,
                   remaining, passes, opaqueMask, distances, nearest,
                   distancesCopy, nearestCopy, step, rowAt>>

-----------------------------------------------------------------------------
(* process_paint_net_alg: set-up *)

\* output.Set(x, y, input.At(x, y))
PaintNetCopy(c) == ModelConvert(c)

\* color.RGBA{uint8(r), uint8(g), uint8(b), 255} of an opaque input pixel
PaintNetOpaque(c) == Pix(Uint8(c.r), Uint8(c.g), Uint8(c.b), Opaque8)

\* _, _, _, alpha := input.At(x, y).RGBA(); alpha == 0xffff
PaintNetIsOpaque(c) == c.a = MaxAlpha16

PaintNetInit ==
    /\ pc = "start"
    /\ ~slower
    /\ output' = [idx \in Pixels |->
                    IF PaintNetIsOpaque(input[idx]) THEN PaintNetOpaque(input[idx])
                    ELSE PaintNetCopy(input[idx])]
    /\ opaqueMask' = [idx \in Pixels |-> PaintNetIsOpaque(input[idx])]
    /\ pc' = "jf_init"
    /\ UNCHANGED <<width, height, input, slower, numCpu, rgba, tempImg, remaining,
                   passes, distances, nearest, distancesCopy, nearestCopy, step,
                   rowAt>>

-----------------------------------------------------------------------------
(* jumpFlood *)

maxDistance == width * width + height * height

InitialDistances(mask) == [idx \in Pixels |-> IF mask[idx] THEN 0 ELSE maxDistance]

InitialNearest(mask) ==
    [idx \in Pixels |-> IF mask[idx] THEN Point(XOf(idx), YOf(idx)) ELSE NoPoint]

maxSteps == CeilLog2(Max(width, height)) * 2

JumpFloodInit ==
    /\ pc = "jf_init"
    /\ distances' = InitialDistances(opaqueMask)
    /\ nearest' = InitialNearest(opaqueMask)
    /\ step' = 1
    /\ pc' = "jf_loop"
    /\ UNCHANGED <<width, height, input, slower, numCpu, rgba, output, tempImg,
                   remaining, passes, opaqueMask, distancesCopy, nearestCopy, rowAt>>

chunkSize == IF height \div numCpu = 0 THEN 1 ELSE height \div numCpu

StartOf(i) == i * chunkSize

EndOf(i) == IF i = numCpu - 1 THEN height ELSE (i + 1) * chunkSize

Workers == 0 .. (numCpu - 1)

\* one iteration of the pass loop up to the launch of the goroutines
PassStart ==
    /\ pc = "jf_loop"
    /\ step < maxSteps
    /\ distancesCopy' = distances
    /\ nearestCopy' = nearest
    /\ rowAt' = [i \in Workers |-> StartOf(i)]
    /\ pc' = "jf_workers"
    /\ UNCHANGED <<width, height, input, slower, numCpu, rgba, output, tempImg,
                   remaining, passes, opaqueMask, distances, nearest, step>>

-----------------------------------------------------------------------------
(* processJumpFlood *)

neighbours8(s) ==
    <<Point(-s, -s), Point(0, -s), Point(s, -s),
      Point(-s, 0), Point(s, 0),
      Point(-s, s), Point(0, s), Point(s, s)>>

\* the comparison turned round: a farther candidate replaces the best
Worsens(distance, bestDistance) == distance > bestDistance

ImprovesOrTies(distance, bestDistance) == distance <= bestDistance

\* if distance < bestDistance
Improves(distance, bestDistance) == distance < bestDistance

RECURSIVE ScanFrom(_, _, _, _, _, _)
\* the loop over neighbours for pixel (x, y): cell holds bestDistance and
\* the values of distances[idx] and nearest[idx]; nC is nearestCopy
ScanFrom(k, x, y, cell, nC, s) ==
    IF k > Len(neighbours8(s)) THEN cell
    ELSE LET nx == x + neighbours8(s)[k].x
             ny == y + neighbours8(s)[k].y
         IN IF InBounds(nx, ny) /\ nC[IdxOf(nx, ny)].x # -1 /\ nC[IdxOf(nx, ny)].y # -1
            THEN LET np == nC[IdxOf(nx, ny)]
                     distance == (x - np.x) * (x - np.x) + (y - np.y) * (y - np.y)
                 IN IF Improves(distance, cell.best)
                    THEN ScanFrom(k + 1, x, y,
                                  [best |-> distance, distance |-> distance, nearest |-> np],
                                  nC, s)
                    ELSE ScanFrom(k + 1, x, y, cell, nC, s)
            ELSE ScanFrom(k + 1, x, y, cell, nC, s)

\* the x loop reading the grids it writes instead of the snapshot
ProcessRowInPlace(y, g, dC, nC, s) ==
    LET cellOf(idx) ==
            ScanFrom(1, XOf(idx), y,
                     [best |-> g.distances[idx], distance |-> g.distances[idx],
                      nearest |-> g.nearest[idx]],
                     g.nearest, s)
    IN [distances |-> [idx \in Pixels |->
                          IF YOf(idx) = y THEN cellOf(idx).distance ELSE g.distances[idx]],
        nearest |-> [idx \in Pixels |->
                          IF YOf(idx) = y THEN cellOf(idx).nearest ELSE g.nearest[idx]]]

\* the x loop for row y: g holds the grids distances and nearest, which the
\* row writes; dC and nC are the snapshot it reads
ProcessRow(y, g, dC, nC, s) ==
    LET cellOf(idx) ==
            ScanFrom(1, XOf(idx), y,
                     [best |-> dC[idx], distance |-> g.distances[idx],
                      nearest |-> g.nearest[idx]],
                     nC, s)
    IN [distances |-> [idx \in Pixels |->
                          IF YOf(idx) = y THEN cellOf(idx).distance ELSE g.distances[idx]],
        nearest |-> [idx \in Pixels |->
                          IF YOf(idx) = y THEN cellOf(idx).nearest ELSE g.nearest[idx]]]

\* goroutine i runs one iteration of its y loop
WorkerRow(i) ==
    /\ pc = "jf_workers"
    /\ rowAt[i] < EndOf(i)
    /\ rowAt[i] < height
    /\ LET g == ProcessRow(rowAt[i], [distances |-> distances, nearest |-> nearest],
                           distancesCopy, nearestCopy, step)
       IN /\ distances' = g.distances
          /\ nearest' = g.nearest
    /\ rowAt' = [rowAt EXCEPT ![i] = rowAt[i] + 1]
    /\ UNCHANGED <<width, height, input, slower, numCpu, pc, rgba, output, tempImg,
                   remaining, passes, opaqueMask, distancesCopy, nearestCopy, step>>

\* goroutine i reads distancesCopy[y*width + x] with y >= height: the index
\* is out of range and the runtime panics, which ends the program
WorkerIndexPanic(i) ==
    /\ pc = "jf_workers"
    /\ rowAt[i] < EndOf(i)
    /\ IdxOf(0, rowAt[i]) >= width * height
    /\ pc' = "panic"
    /\ UNCHANGED <<width, height, input, slower, numCpu, rgba, output, tempImg,
                   remaining, passes, opaqueMask, distances, nearest, distancesCopy,
                   nearestCopy, step, rowAt>>

\* a wait that does not wait for goroutine i
WorkerNotAwaited(i) == TRUE

WorkerDone(i) == rowAt[i] >= EndOf(i)

\* wg.Wait() returns, step++
PassJoin ==
    /\ pc = "jf_workers"
    /\ \A i \in Workers : WorkerDone(i)
    /\ step' = step + 1
    /\ pc' = "jf_loop"
    /\ UNCHANGED <<width, height, input, slower, numCpu, rgba, output, tempImg,
                   remaining, passes, opaqueMask, distances, nearest, distancesCopy,
                   nearestCopy, rowAt>>

\* the pass loop ends: return nearest
JumpFloodReturn ==
    /\ pc = "jf_loop"
    /\ ~(step < maxSteps)
    /\ pc' = "pn_final"
    /\ UNCHANGED <<width, height, input, slower, numCpu, rgba, output, tempImg,
                   remaining, passes, opaqueMask, distances, nearest, distancesCopy,
                   nearestCopy, step, rowAt>>

-----------------------------------------------------------------------------
(* jumpFlood with numCpu = 1: chunkSize = height and the only goroutine
   runs processJumpFlood over the rows 0 .. height-1 *)

RECURSIVE RowsFrom(_, _, _, _, _, _)
\* processJumpFlood(..., start, end): the y loop from y to end
RowsFrom(y, end, g, dC, nC, s) ==
    IF y >= end THEN g
    ELSE RowsFrom(y + 1, end, ProcessRow(y, g, dC, nC, s), dC, nC, s)

RECURSIVE OneWorkerFrom(_, _)
\* the pass loop from step s on, each pass reading the grids as they were
\* when it started
OneWorkerFrom(s, g) ==
    IF s < maxSteps
    THEN OneWorkerFrom(s + 1, RowsFrom(0, height, g, g.distances, g.nearest, s))
    ELSE g

OneWorkerNearest(mask) ==
    OneWorkerFrom(1, [distances |-> InitialDistances(mask),
                      nearest |-> InitialNearest(mask)]).nearest

\* iterations of `for step := 1; step < maxSteps; step++` completed so far
PassesRun == step - 1

-----------------------------------------------------------------------------
(* process_paint_net_alg: the fill *)

\* color.RGBA{uint8(r >> 8), uint8(g >> 8), uint8(b >> 8), 255} of the source
PaintNetFill(c) == Pix(Uint8(c.r \div 256), Uint8(c.g \div 256), Uint8(c.b \div 256), Opaque8)

PaintNetFinal ==
    /\ pc = "pn_final"
    /\ output' = [idx \in Pixels |->
                    IF input[idx].a # MaxAlpha16
                    THEN IF nearest[idx].x # -1 /\ nearest[idx].y # -1
                         THEN PaintNetFill(input[IdxOf(nearest[idx].x, nearest[idx].y)])
                         ELSE ZeroPix
                    ELSE output[idx]]
    /\ pc' = "done"
    /\ UNCHANGED <<width, height, input, slower, numCpu, rgba, tempImg, remaining,
                   passes, opaqueMask, distances, nearest, distancesCopy, nearestCopy,
                   step, rowAt>>

-----------------------------------------------------------------------------
(* Specifications *)

Next ==
    \/ GimpInit
    \/ GimpPass
    \/ GimpCopyBack
    \/ GimpReturn
    \/ PaintNetInit
    \/ JumpFloodInit
    \/ PassStart
    \/ \E i \in Workers : WorkerRow(i)
    \/ \E i \in Workers : WorkerIndexPanic(i)
    \/ PassJoin
    \/ JumpFloodReturn
    \/ PaintNetFinal

Spec == Init /\ [][Next]_vars

\* a run of the program keeps running: the main goroutine and every started
\* goroutine are scheduled until they return
FairSpec == Init /\ [][Next]_vars /\ WF_vars(Next)

\* the same program on wide single-row rasters
SpecWide == InitWide /\ [][Next]_vars

-----------------------------------------------------------------------------
(* Claims *)

InputOpaque(idx) == input[idx].a = MaxAlpha16

InputHasOpaque == \E idx \in Pixels : InputOpaque(idx)

InputAllTransparent == \A idx \in Pixels : ~InputOpaque(idx)

\* a 16-bit colour reduced to 8 bits (the high byte of every sample), opaque
High8(c) == Pix(c.r \div 256, c.g \div 256, c.b \div 256, 255)

Abs(v) == IF v < 0 THEN -v ELSE v

\* 4-connected distance from idx to the nearest opaque input pixel
Dist4(idx) ==
    LET ds == { Abs(XOf(idx) - XOf(j)) + Abs(YOf(idx) - YOf(j)) :
                j \in {k \in Pixels : InputOpaque(k)} }
    IN CHOOSE d \in ds : \A e \in ds : d <= e

MaxDist4 ==
    LET ds == { Dist4(idx) : idx \in {k \in Pixels : ~InputOpaque(k)} }
    IN IF ds = {} THEN 0 ELSE CHOOSE d \in ds : \A e \in ds : d >= e

Neigh8(idx) ==
    { j \in Pixels : j # idx /\ Abs(XOf(idx) - XOf(j)) <= 1 /\ Abs(YOf(idx) - YOf(j)) <= 1 }

\* C1 (the part about process_gimp_alg): on a raster in which no pixel is
\* opaque, the loop `for remaining > 0` reaches its exit and the run returns.
C1_GimpLoopExits == (slower /\ InputAllTransparent) ~> (pc = "done")

\* C2: if the input has an opaque pixel, no pixel's nearest-source is the
\* (-1,-1) sentinel after the last jump-flood pass, and every pixel of the
\* output of either algorithm has alpha 255.
C2_OutputOpaque ==
    InputHasOpaque =>
        /\ (pc = "pn_final" => \A idx \in Pixels : nearest[idx] # NoPoint)
        /\ (pc = "done" => \A idx \in Pixels : output[idx].a = 255)

\* C3: every opaque input pixel is, in the output of either algorithm, the
\* input colour reduced to its high bytes with alpha 255; on a fully opaque
\* input process_gimp_alg runs zero passes.
C3_OpaqueKept ==
    pc = "done" =>
        /\ \A idx \in Pixels : InputOpaque(idx) => output[idx] = High8(input[idx])
        /\ (slower /\ (\A idx \in Pixels : InputOpaque(idx)) => passes = 0)

\* C4: for every worker count, jumpFlood completes and returns the nearest
\* grid that a run with one worker returns.
C4_WorkersAgree ==
    ~slower =>
        /\ pc # "panic"
        /\ (pc \in {"pn_final", "done"} => nearest = OneWorkerNearest(opaqueMask))

\* C5: jumpFlood runs exactly 2 * ceil(log2(max(W, H))) passes.
C5_PassCount ==
    (~slower /\ pc \in {"pn_final", "done"}) =>
        PassesRun = 2 * CeilLog2(Max(width, height))

\* C6: with D the largest 4-connected distance from a transparent pixel to
\* the nearest opaque input pixel, process_gimp_alg returns with passes = D,
\* and after k passes exactly the transparent pixels at distance <= k are
\* opaque.
C6_PassesEqualDistance ==
    (slower /\ InputHasOpaque) =>
        /\ (pc = "done" => passes = MaxDist4)
        /\ (pc = "ia_loop" =>
                \A idx \in Pixels :
                    ~InputOpaque(idx) => (output[idx].a = 255 <=> Dist4(idx) <= passes))

\* C7: when exactly one pixel t is transparent and its neighbours are all of
\* one colour, the run completes for every worker count and the output at t
\* is that colour with alpha 255, under both algorithms.
C7_SingleHoleFilled ==
    \A t \in Pixels :
        ( /\ {idx \in Pixels : ~InputOpaque(idx)} = {t}
          /\ Neigh8(t) # {}
          /\ \A m, n \in Neigh8(t) : input[m] = input[n] )
        => /\ pc # "panic"
           /\ (pc = "done" => \A n \in Neigh8(t) : output[t] = High8(input[n]))

\* the offsets of the step-1 scan, in scan order, that lead from idx to an
\* opaque 4-connected neighbour
Adjacent4(idx) ==
    { k \in 1 .. 8 :
        LET n == neighbours8(1)[k]
        IN /\ (n.x = 0 \/ n.y = 0)
           /\ InBounds(XOf(idx) + n.x, YOf(idx) + n.y)
           /\ InputOpaque(IdxOf(XOf(idx) + n.x, YOf(idx) + n.y)) }

FirstAdjacent4(idx) ==
    LET k == CHOOSE j \in Adjacent4(idx) : \A i \in Adjacent4(idx) : j <= i
    IN Point(XOf(idx) + neighbours8(1)[k].x, YOf(idx) + neighbours8(1)[k].y)

\* C8: a transparent pixel with an opaque 4-connected neighbour ends with
\* the first such neighbour of the scan order as its nearest-source, at
\* squared distance 1 (later candidates at the same distance do not replace
\* it, and no diagonal neighbour stays), and is filled with the colour of
\* that 4-connected neighbour.
C8_FirstNearestKept ==
    (~slower /\ pc \in {"pn_final", "done"}) =>
        \A idx \in Pixels :
            (~InputOpaque(idx) /\ Adjacent4(idx) # {}) =>
                /\ nearest[idx] = FirstAdjacent4(idx)
                /\ distances[idx] = 1
                /\ (pc = "done" =>
                        output[idx] = High8(input[IdxOf(FirstAdjacent4(idx).x,
                                                        FirstAdjacent4(idx).y)]))

\* the 3 x 3 scenario: transparent centre, red 4-connected neighbours, blue
\* corners (the corner (0,0) is scanned first), filled from the pixel above
C8_Witness ==
    /\ ~slower /\ pc = "done"
    /\ width = 3 /\ height = 3
    /\ input[4] = Clear /\ input[1] = Red /\ input[0] = Blue
    /\ nearest[4] = Point(1, 0)
    /\ output[4] = Pix(255, 0, 0, 255)

\* C9: both algorithms treat a pixel as opaque iff its input alpha is 0xffff.
C9_SameClassification ==
    /\ (pc = "ia_loop" /\ passes = 0 =>
            \A idx \in Pixels : ~GimpCountsAsRemaining(rgba, idx) <=> InputOpaque(idx))
    /\ (pc = "jf_init" =>
            \A idx \in Pixels : opaqueMask[idx] <=> InputOpaque(idx))

RowsOf(i) == StartOf(i) .. (EndOf(i) - 1)

\* C10: in every pass the workers' row ranges are pairwise disjoint, lie in
\* [0, H) and cover [0, H), and no worker indexes a row y >= H.
C10_RowRanges ==
    /\ pc # "panic"
    /\ (pc = "jf_workers" =>
            /\ \A i, j \in Workers : i # j => RowsOf(i) \cap RowsOf(j) = {}
            /\ \A i \in Workers : RowsOf(i) \subseteq 0 .. (height - 1)
            /\ UNION {RowsOf(i) : i \in Workers} = 0 .. (height - 1))

\* what the pass writes to cell idx when it reads nothing but the snapshot
SnapshotCell(idx) ==
    ScanFrom(1, XOf(idx), YOf(idx),
             [best |-> distancesCopy[idx], distance |-> distancesCopy[idx],
              nearest |-> nearestCopy[idx]],
             nearestCopy, step)

\* row y has been processed in this pass by the worker whose range holds it
RowWritten(y) == \E i \in Workers : y \in RowsOf(i) /\ y < rowAt[i]

\* C11: within a pass the workers' write ranges are pairwise disjoint, the
\* cells of a row not yet processed by its worker still hold the snapshot
\* (no other worker wrote them), and the cells of a processed row hold what
\* the snapshot alone determines (no worker read a cell written in the
\* pass), whatever the interleaving.
C11_SnapshotOnly ==
    pc = "jf_workers" =>
        /\ \A i, j \in Workers : i # j => RowsOf(i) \cap RowsOf(j) = {}
        /\ \A idx \in Pixels :
              IF RowWritten(YOf(idx))
              THEN /\ distances[idx] = SnapshotCell(idx).distance
                   /\ nearest[idx] = SnapshotCell(idx).nearest
              ELSE /\ distances[idx] = distancesCopy[idx]
                   /\ nearest[idx] = nearestCopy[idx]

\* two workers in a pass: one has processed a row and changed a cell while
\* the other has not started its rows
C11_Witness ==
    /\ pc = "jf_workers"
    /\ \E i, j \in Workers :
          /\ i # j
          /\ rowAt[i] > StartOf(i)
          /\ rowAt[j] = StartOf(j) /\ rowAt[j] < EndOf(j) /\ rowAt[j] < height
    /\ \E idx \in Pixels : nearest[idx] # nearestCopy[idx]

\* C12: a pass is over, and the next snapshot and launch or the return of
\* jumpFlood can happen, only when every goroutine of the pass has run its
\* row loop to the end.
C12_PassesJoined ==
    (~slower /\ pc \in {"jf_loop", "pn_final", "done"} /\ PassesRun >= 1) =>
        \A i \in Workers : rowAt[i] >= EndOf(i)

\* between two passes of a run with several workers, the first pass having
\* changed the grids
C12_Witness ==
    /\ pc = "jf_loop" /\ PassesRun >= 1 /\ step < maxSteps
    /\ numCpu >= 2 /\ height >= 2
    /\ \E idx \in Pixels : distances[idx] # distancesCopy[idx]

\* the opaque 4-connected neighbours of idx in raster img
Opaque4(img, idx) ==
    { j \in Pixels : Abs(XOf(idx) - XOf(j)) + Abs(YOf(idx) - YOf(j)) = 1 /\ img[j].a = 255 }

RECURSIVE SumOf(_, _, _)
\* the sum of channel ch of img over the pixels S
SumOf(S, img, ch) ==
    IF S = {} THEN 0
    ELSE LET j == CHOOSE k \in S : TRUE
         IN img[j][ch] + SumOf(S \ {j}, img, ch)

\* the high byte of the truncated mean of the 16-bit samples v * 257
Mean16High(S, img, ch) == ((257 * SumOf(S, img, ch)) \div Cardinality(S)) \div 256

\* the pixel a simultaneous update gives idx from raster img alone
Simultaneous(img, idx) ==
    IF img[idx].a # 255 /\ Opaque4(img, idx) # {}
    THEN Pix(Mean16High(Opaque4(img, idx), img, "r"),
             Mean16High(Opaque4(img, idx), img, "g"),
             Mean16High(Opaque4(img, idx), img, "b"), 255)
    ELSE img[idx]

\* C13: at the end of the pixel loops of a pass (output still holds the
\* raster the pass started from), every pixel of tempImg is what the raster
\* at the start of the pass alone determines, and a pixel filled in the pass
\* had a neighbour that was opaque when the pass started.
C13_PassSimultaneous ==
    (slower /\ pc = "ia_copy") =>
        /\ tempImg = [idx \in Pixels |-> Simultaneous(output, idx)]
        /\ \A idx \in Pixels :
              (output[idx].a # 255 /\ tempImg[idx].a = 255) => Opaque4(output, idx) # {}

\* a pass has filled one pixel and left untouched a transparent pixel next
\* to it, which comes earlier or later in the visiting order
C13_Witness ==
    /\ slower /\ pc = "ia_copy"
    /\ \E i, j \in Pixels :
          /\ Abs(XOf(i) - XOf(j)) + Abs(YOf(i) - YOf(j)) = 1
          /\ i < j
          /\ output[i].a # 255 /\ tempImg[i].a = 255
          /\ output[j].a # 255 /\ tempImg[j].a # 255

\* the pixels the pass at its end has filled
FilledInPass == { idx \in Pixels : output[idx].a # 255 /\ tempImg[idx].a = 255 }

\* floor((v1 + ... + vk) / k) of the 8-bit samples
Mean8(S, img, ch) == SumOf(S, img, ch) \div Cardinality(S)

\* C14 as stated: every channel a pass writes is the truncated mean
\* floor((v1 + ... + vk) / k) of the opaque neighbours' 8-bit values, and
\* the alpha written is 255.
C14_TruncatedMean8 ==
    (slower /\ pc = "ia_copy") =>
        \A idx \in FilledInPass :
            /\ tempImg[idx].a = 255
            /\ \A ch \in {"r", "g", "b"} :
                  tempImg[idx][ch] = Mean8(Opaque4(output, idx), output, ch)

\* C14 amended: every channel a pass writes is the high byte of the
\* truncated mean of the neighbours' 16-bit samples,
\* floor(floor(257 * (v1 + ... + vk) / k) / 256), which is
\* floor((v1 + ... + vk) / k) or one more; the alpha written is 255.
C14_TruncatedMean16 ==
    (slower /\ pc = "ia_copy") =>
        \A idx \in FilledInPass :
            /\ tempImg[idx].a = 255
            /\ \A ch \in {"r", "g", "b"} :
                  /\ tempImg[idx][ch] = Mean16High(Opaque4(output, idx), output, ch)
                  /\ tempImg[idx][ch] - Mean8(Opaque4(output, idx), output, ch) \in {0, 1}

\* a pixel filled from three or four opaque neighbours whose red channel is
\* not the truncated mean of the 8-bit values
C14_Witness ==
    /\ slower /\ pc = "ia_copy"
    /\ \E idx \in FilledInPass :
          /\ Cardinality(Opaque4(output, idx)) >= 3
          /\ tempImg[idx].r # Mean8(Opaque4(output, idx), output, "r")

\* C15: after the fill, every transparent input pixel whose nearest-source
\* is resolved has alpha 255 and the colour its nearest-source pixel has in
\* the output raster.
C15_FillMatchesSource ==
    (~slower /\ pc = "done") =>
        \A idx \in Pixels :
            (~InputOpaque(idx) /\ nearest[idx].x # -1 /\ nearest[idx].y # -1) =>
                /\ output[idx].a = 255
                /\ output[idx] = output[IdxOf(nearest[idx].x, nearest[idx].y)]

\* C16: the step offsets decrease from pass to pass: the offset of each
\* pass after the first is smaller than the offset of the pass before it.
C16_StepsDecrease ==
    [][(pc = "jf_workers" /\ pc' = "jf_loop") => step' < step]_vars

NotOpaqueIn(img) == Cardinality({idx \in Pixels : img[idx].a # 255})

\* C17: at the start of the iterative-average loop and at the end of every
\* pass `remaining` is the number of pixels of the working raster whose
\* alpha is not 255; it is never negative; and a pass over a raster with an
\* opaque and a non-opaque pixel leaves it strictly smaller than before.
C17_RemainingCounts ==
    slower =>
        /\ pc \in {"ia_loop", "done"} =>
              /\ remaining = NotOpaqueIn(output)
              /\ remaining >= 0
        /\ pc = "ia_copy" =>
              /\ remaining = NotOpaqueIn(tempImg)
              /\ remaining >= 0
              /\ (NotOpaqueIn(output) > 0 /\ NotOpaqueIn(output) < width * height)
                    => remaining < NotOpaqueIn(output)

C17_Witness ==
    /\ slower
    /\ pc = "ia_copy"
    /\ passes >= 2
    /\ remaining > 0
    /\ remaining < NotOpaqueIn(output)

Resolved(idx) == nearest[idx].x # -1 /\ nearest[idx].y # -1

SquaredDistance(idx, p) ==
    (XOf(idx) - p.x) * (XOf(idx) - p.x) + (YOf(idx) - p.y) * (YOf(idx) - p.y)

\* C18: after the initialization of the grids and after every jump-flood
\* pass, an opaque pixel has distance 0 and is its own nearest source; a
\* resolved pixel points to a pixel of the opaque mask and stores the
\* squared Euclidean distance to it; an unresolved pixel stores the
\* sentinel W*W + H*H; and no stored distance is larger than it was in the
\* snapshot taken before the pass.
C18_GridsConsistent ==
    (~slower /\ pc \in {"jf_loop", "pn_final", "done"}) =>
        \A idx \in Pixels :
            /\ opaqueMask[idx] =>
                  /\ distances[idx] = 0
                  /\ nearest[idx] = Point(XOf(idx), YOf(idx))
            /\ Resolved(idx) =>
                  /\ InBounds(nearest[idx].x, nearest[idx].y)
                  /\ opaqueMask[IdxOf(nearest[idx].x, nearest[idx].y)]
                  /\ distances[idx] = SquaredDistance(idx, nearest[idx])
            /\ ~Resolved(idx) =>
                  /\ nearest[idx] = NoPoint
                  /\ distances[idx] = width * width + height * height
            /\ PassesRun >= 1 => distances[idx] <= distancesCopy[idx]

C18_Witness ==
    /\ ~slower
    /\ pc = "jf_loop"
    /\ PassesRun >= 1
    /\ \E i, j, k \in Pixels :
          /\ opaqueMask[i]
          /\ ~opaqueMask[j] /\ Resolved(j) /\ distances[j] < distancesCopy[j]
          /\ ~Resolved(k)

\* C19: in the iterative average, a pixel that is opaque in the working
\* raster keeps its four channels in every later step, up to the returned
\* raster.
C19_OpaqueFrozen ==
    [][(slower /\ pc # "start") =>
          \A idx \in Pixels :
              output[idx].a = 255 =>
                  /\ output'[idx] = output[idx]
                  /\ (pc' = "ia_copy" => tempImg'[idx] = output[idx])]_vars

C19_Witness ==
    /\ slower
    /\ pc = "ia_copy"
    /\ passes >= 2
    /\ \E idx, j \in Pixels :
          /\ ModelConvert(input[idx]).a # 255
          /\ output[idx].a = 255
          /\ tempImg[idx] = output[idx]
          /\ Abs(XOf(idx) - XOf(j)) + Abs(YOf(idx) - YOf(j)) = 1
          /\ output[j].a # 255
          /\ tempImg[j].a = 255
          /\ tempImg[j] # output[idx]

====
